---- MODULE Spec2Model ----
(***************************************************************************)
(* Concurrent word-frequency counter of word_frequency.py: map_reduce      *)
(* splits the text into num_threads segments, one map_worker thread per    *)
(* segment tokenizes its segment and merges its local Counter into the     *)
(* shared defaultdict under a threading.Lock; the main thread joins all    *)
(* threads and returns dict(partial_counts).                               *)
(*                                                                         *)
(* A text is a sequence of characters, a character is a string.  A word is *)
(* a sequence of characters.  A Python dict (insertion ordered) is a       *)
(* sequence of records [word, count] with pairwise distinct words.         *)
(***************************************************************************)
EXTENDS Integers, Sequences, FiniteSets, TLC

\* ---------------------------------------------------------------- bounds
\* longest generated text
MaxLen == 3
\* largest num_threads tried on the generated texts
MaxThreads == 3
\* largest top_n tried
MaxTop == 5
\* largest count of a table handed to visualize_top_words directly
MaxCount == 2
\* file_sorter: largest number of files in the source tree
MaxFiles == 2
\* file_sorter: largest number of chunks of a source file
MaxChunks == 2

\* ------------------------------------------------------------ characters
\* U+0130 LATIN CAPITAL LETTER I WITH DOT ABOVE: str.lower() maps it to the
\* two code points "i" U+0307
DOTTED_I == "I+dot"
\* U+0307 COMBINING DOT ABOVE (category Mn: not matched by \w)
COMBINING_DOT == "+dot"

\* U+03A3 GREEK CAPITAL LETTER SIGMA: str.lower() maps it to U+03C2 at the
\* end of a word and to U+03C3 elsewhere
SIGMA == "Sigma"
\* U+03C3 GREEK SMALL LETTER SIGMA
SMALL_SIGMA == "sigma"
\* U+03C2 GREEK SMALL LETTER FINAL SIGMA
FINAL_SIGMA == "final sigma"
\* U+0027 APOSTROPHE (not matched by \w)
APOSTROPHE == "'"

\* characters the generated texts are made of
Alphabet == {"a", "b", "A", " ", DOTTED_I}

\* the characters the regular expression class \w matches, among those used
WordChars ==
  {"a", "b", "c", "e", "h", "i", "m", "n", "o", "r", "s", "t", "A", "T", DOTTED_I,
   SIGMA, SMALL_SIGMA, FINAL_SIGMA}

\* the characters with the Unicode property Cased, among those used: the
\* word characters used are all letters with a case
Cased == WordChars

\* the characters with the Unicode property Case_Ignorable, among those used
CaseIgnorable == {APOSTROPHE, COMBINING_DOT}

\* str.lower() of one character (a sequence: lowering can lengthen the text)
LowerChar(c) ==
  CASE c = "A" -> <<"a">>
    [] c = "T" -> <<"t">>
    [] c = DOTTED_I -> <<"i", COMBINING_DOT>>
    [] OTHER -> <<c>>

\* the capital sigma at position i of s is final: going left over the case
\* ignorable characters there is a cased character, going right over the
\* case ignorable characters there is the end of s or an uncased character
IsFinalSigma(s, i) ==
  /\ \E j \in 1..(i - 1) :
        /\ s[j] \in Cased
        /\ \A k \in (j + 1)..(i - 1) : s[k] \in CaseIgnorable
  /\ ~ \E j \in (i + 1)..Len(s) :
        /\ s[j] \in Cased
        /\ \A k \in (i + 1)..(j - 1) : s[k] \in CaseIgnorable

\* str.lower() of s from position i on
RECURSIVE LowerFrom(_, _)
LowerFrom(s, i) ==
  IF i > Len(s) THEN <<>>
  ELSE (IF s[i] = SIGMA
        THEN (IF IsFinalSigma(s, i) THEN <<FINAL_SIGMA>> ELSE <<SMALL_SIGMA>>)
        ELSE LowerChar(s[i]))
       \o LowerFrom(s, i + 1)

\* str.lower() of a string
Lower(s) == LowerFrom(s, 1)

\* re.findall(r"\b\w+\b", s): the maximal runs of word characters of s, left
\* to right.  run is the run being scanned, out the runs already closed.
RECURSIVE Scan(_, _, _)
Scan(s, run, out) ==
  IF s = <<>>
  THEN IF run = <<>> THEN out ELSE Append(out, run)
  ELSE IF Head(s) \in WordChars
       THEN Scan(Tail(s), Append(run, Head(s)), out)
       ELSE Scan(Tail(s), <<>>, IF run = <<>> THEN out ELSE Append(out, run))

FindAll(s) == Scan(s, <<>>, <<>>)

\* the entries of nltk's English stop word list that the texts can contain
STOP_WORDS == {<<"a">>, <<"i">>, <<"t", "h", "e">>, <<"o", "n">>}

\* mutant of FilterStopWords: the stop word filter of line 59 is left out
KeepAllWords(words) == words

\* [word for word in words if word not in stop_words]
FilterStopWords(words) == SelectSeq(words, LAMBDA w : w \notin STOP_WORDS)

\* ------------------------------------------------------------------ dicts
DictKeys(d) == {d[k].word : k \in 1..Len(d)}

DictIndex(d, w) == CHOOSE k \in 1..Len(d) : d[k].word = w

\* d[w] of a key that is present
DictGet(d, w) == d[DictIndex(d, w)].count

\* d[w] = v: an existing key keeps its position, a new key is appended
DictSet(d, w, v) ==
  IF w \in DictKeys(d)
  THEN [d EXCEPT ![DictIndex(d, w)].count = v]
  ELSE Append(d, [word |-> w, count |-> v])

\* the mapping a dict stands for (dict equality ignores insertion order)
AsMap(d) == [w \in DictKeys(d) |-> DictGet(d, w)]

\* collections.Counter(words): counts in order of first occurrence
RECURSIVE CounterFrom(_, _)
CounterFrom(words, d) ==
  IF words = <<>> THEN d
  ELSE LET w == Head(words)
       IN CounterFrom(Tail(words),
                      DictSet(d, w, IF w \in DictKeys(d) THEN DictGet(d, w) + 1 ELSE 1))

Counter(words) == CounterFrom(words, <<>>)

\* lines 57-61 of map_worker: the local Counter of one segment
LocalCount(text_segment) == Counter(FilterStopWords(FindAll(Lower(text_segment))))

\* -------------------------------------------------------------- segmenter
\* Python's a // b (floor division), b # 0
FloorDiv(a, b) ==
  IF b > 0 THEN a \div b ELSE 0 - ((a + (0 - b) - 1) \div (0 - b))

\* s[a:b] for 0 <= a, 0 <= b (the end is clamped to len(s))
Slice(s, a, b) == SubSeq(s, a + 1, IF b < Len(s) THEN b ELSE Len(s))

\* s[a:] for 0 <= a
SliceFrom(s, a) == SubSeq(s, a + 1, Len(s))

\* range(n)
Range(n) == 0..(n - 1)

\* mutant of Segments: the last segment is cut like the others, the
\* remainder of the division is dropped
SegmentsNoRemainder(t, n) ==
  LET segment_length == FloorDiv(Len(t), n)
  IN [k \in 1..(IF n > 0 THEN n ELSE 0) |->
        Slice(t, (k - 1) * segment_length, k * segment_length)]

\* mutant of Segments: empty segments are left out of the list
SegmentsSkipEmpty(t, n) ==
  LET segment_length == FloorDiv(Len(t), n)
      all == [k \in 1..(IF n > 0 THEN n ELSE 0) |->
                IF k # n
                THEN Slice(t, (k - 1) * segment_length, k * segment_length)
                ELSE SliceFrom(t, (k - 1) * segment_length)]
  IN SelectSeq(all, LAMBDA seg : seg # <<>>)

\* lines 77-86 of map_reduce; element i + 1 of the result is segment i
Segments(t, n) ==
  LET segment_length == FloorDiv(Len(t), n)
  IN [k \in 1..(IF n > 0 THEN n ELSE 0) |->
        LET i == k - 1
        IN IF i # n - 1
           THEN Slice(t, i * segment_length, (i + 1) * segment_length)
           ELSE SliceFrom(t, i * segment_length)]

\* ------------------------------------------------------------------ inputs
\* every text of at most MaxLen characters of Alphabet
Texts == UNION {[1..n -> Alphabet] : n \in 0..MaxLen}

\* "The cat sat on the mat. The cat ran."
ExampleText ==
  <<"T", "h", "e", " ", "c", "a", "t", " ", "s", "a", "t", " ",
    "o", "n", " ", "t", "h", "e", " ", "m", "a", "t", ".", " ",
    "T", "h", "e", " ", "c", "a", "t", " ", "r", "a", "n", ".">>

\* a word that ends in a capital sigma, an apostrophe, a word: "A\u03a3'b"
SigmaText == <<"A", SIGMA, APOSTROPHE, "b">>

\* the calls map_reduce(text, num_threads) that are explored
Calls ==
  (Texts \X ((0 - 1)..MaxThreads))
    \cup ({ExampleText} \X {1, 3})
    \cup ({SigmaText} \X {1, 2})

\* ------------------------------------------------------------------- state
VARIABLES
  text,            \* argument text of map_reduce
  num_threads,     \* argument num_threads of map_reduce
  pc_main,         \* "start", "run", "returned" or "raised"
  error,           \* the exception map_reduce raised, "none" if none
  segments,        \* the list segments
  started,         \* len(threads): threads created and started so far
  joined,          \* threads the second loop has joined so far
  partial_counts,  \* the shared defaultdict(int)
  lock,            \* the set of threads holding the Lock (empty: unlocked)
  wpc,             \* per thread: position in map_worker
  local_counter,   \* per thread: its Counter
  idx,             \* per thread: items of local_counter merged so far
  tmp,             \* per thread: the value partial_counts[word] read by +=
  result,          \* the dict map_reduce returned
  pc_top,          \* "idle", "shown" once visualize_top_words has ranked
  top_n,           \* argument top_n of visualize_top_words
  top_words,       \* the list top_words
  src_files,       \* file_sorter: the regular files os.walk finds, in order
  dest_dirs,       \* file_sorter: the directories that exist under dest_dir
  dest_files,      \* file_sorter: the files under dest_dir, path -> content
  rf_pc,           \* file_sorter: position in read_folder
  tpc,             \* file_sorter: per task, position in copy_file
  tpos             \* file_sorter: per task, chunks read from the source

vars ==
  <<text, num_threads, pc_main, error, segments, started, joined,
    partial_counts, lock, wpc, local_counter, idx, tmp, result,
    pc_top, top_n, top_words,
    src_files, dest_dirs, dest_files, rf_pc, tpc, tpos>>

\* the state of file_sorter.py
sorter_vars == <<src_files, dest_dirs, dest_files, rf_pc, tpc, tpos>>

\* the state of word_frequency.py
counter_vars ==
  <<text, num_threads, pc_main, error, segments, started, joined,
    partial_counts, lock, wpc, local_counter, idx, tmp, result,
    pc_top, top_n, top_words>>

\* file_sorter.py is not running
SorterIdle ==
  /\ src_files = <<>>
  /\ dest_dirs = {}
  /\ dest_files = <<>>
  /\ rf_pc = "idle"
  /\ tpc = <<>>
  /\ tpos = <<>>

\* the thread of segment i is thread i
Threads == Range(Len(segments))

Finished == {"done", "faulted"}

Init ==
  /\ \E c \in Calls : text = c[1] /\ num_threads = c[2]
  /\ pc_main = "start"
  /\ error = "none"
  /\ segments = <<>>
  /\ started = 0
  /\ joined = 0
  /\ partial_counts = <<>>
  /\ lock = {}
  /\ wpc = <<>>
  /\ local_counter = <<>>
  /\ idx = <<>>
  /\ tmp = <<>>
  /\ result = <<>>
  /\ pc_top = "idle"
  /\ top_n = 0
  /\ top_words = <<>>
  /\ SorterIdle

\* ------------------------------------------------------------ main thread
\* lines 77-90: text_length // num_threads raises ZeroDivisionError when
\* num_threads = 0; otherwise the segments, the dict and the lock are made
ComputeSegments ==
  /\ pc_main = "start"
  /\ IF num_threads = 0
     THEN /\ pc_main' = "raised"
          /\ error' = "ZeroDivisionError"
          /\ UNCHANGED <<segments, wpc, local_counter, idx, tmp>>
     ELSE /\ pc_main' = "run"
          /\ segments' = Segments(text, num_threads)
          /\ wpc' = [i \in Range(Len(segments')) |-> "unstarted"]
          /\ local_counter' = [i \in Range(Len(segments')) |-> <<>>]
          /\ idx' = [i \in Range(Len(segments')) |-> 0]
          /\ tmp' = [i \in Range(Len(segments')) |-> 0]
          /\ UNCHANGED error
  /\ UNCHANGED <<sorter_vars, pc_top, top_n, top_words, text, num_threads, started, joined, partial_counts, lock, result>>

\* lines 92-97: one iteration of the first loop creates and starts a thread
Spawn ==
  /\ pc_main = "run"
  /\ started < Len(segments)
  /\ wpc' = [wpc EXCEPT ![started] = "tokenize"]
  /\ started' = started + 1
  /\ UNCHANGED <<sorter_vars, pc_top, top_n, top_words, text, num_threads, pc_main, error, segments, joined,
                 partial_counts, lock, local_counter, idx, tmp, result>>

\* mutant of JoinReady: the main thread does not wait for thread i
JoinWithoutWaiting(i) == TRUE

\* thread.join() returns once thread i has ended
JoinReady(i) == wpc[i] \in Finished

\* lines 99-100: one iteration of the second loop
Join ==
  /\ pc_main = "run"
  /\ started = Len(segments)
  /\ joined < Len(segments)
  /\ JoinReady(joined)
  /\ joined' = joined + 1
  /\ UNCHANGED <<sorter_vars, pc_top, top_n, top_words, text, num_threads, pc_main, error, segments, started,
                 partial_counts, lock, wpc, local_counter, idx, tmp, result>>

\* line 102: return dict(partial_counts)
Return ==
  /\ pc_main = "run"
  /\ started = Len(segments)
  /\ joined = Len(segments)
  /\ pc_main' = "returned"
  /\ result' = partial_counts
  /\ UNCHANGED <<sorter_vars, pc_top, top_n, top_words, text, num_threads, error, segments, started, joined,
                 partial_counts, lock, wpc, local_counter, idx, tmp>>

\* ----------------------------------------------------------------- worker
\* mutant of Tokenize: the with block spans the whole of map_worker, the
\* segment is tokenized and counted under the lock
TokenizeUnderLock(i) ==
  /\ wpc[i] = "tokenize"
  /\ lock = {}
  /\ lock' = {i}
  /\ local_counter' = [local_counter EXCEPT ![i] = LocalCount(segments[i + 1])]
  /\ wpc' = [wpc EXCEPT ![i] = IF local_counter'[i] # <<>> THEN "merge_get" ELSE "release"]
  /\ UNCHANGED <<sorter_vars, pc_top, top_n, top_words, text, num_threads, pc_main, error, segments, started, joined,
                 partial_counts, idx, tmp, result>>

\* mutant of Tokenize: every thread is handed the first segment
TokenizeFirstSegment(i) ==
  /\ wpc[i] = "tokenize"
  /\ local_counter' = [local_counter EXCEPT ![i] = LocalCount(segments[1])]
  /\ wpc' = [wpc EXCEPT ![i] = "acquire"]
  /\ UNCHANGED <<sorter_vars, pc_top, top_n, top_words, text, num_threads, pc_main, error, segments, started, joined,
                 partial_counts, lock, idx, tmp, result>>

\* lines 57-61: words, filtered words and local_counter of thread i
Tokenize(i) ==
  /\ wpc[i] = "tokenize"
  /\ local_counter' = [local_counter EXCEPT ![i] = LocalCount(segments[i + 1])]
  /\ wpc' = [wpc EXCEPT ![i] = "acquire"]
  /\ UNCHANGED <<sorter_vars, pc_top, top_n, top_words, text, num_threads, pc_main, error, segments, started, joined,
                 partial_counts, lock, idx, tmp, result>>

\* mutant of CanAcquire: the lock excludes nobody
CanAcquireAlways == TRUE

\* Lock.acquire() succeeds only on an unlocked lock
CanAcquire == lock = {}

\* the position after item k of local_counter: the next item or the end of
\* the with block
AfterItem(i, k) == IF k < Len(local_counter[i]) THEN "merge_get" ELSE "release"

\* mutant of Acquire: the worker enters the merge without taking the lock
AcquireUnguarded(i) ==
  /\ wpc[i] = "acquire"
  /\ wpc' = [wpc EXCEPT ![i] = AfterItem(i, 0)]
  /\ UNCHANGED <<sorter_vars, pc_top, top_n, top_words, text, num_threads, pc_main, error, segments, started, joined,
                 partial_counts, lock, local_counter, idx, tmp, result>>

\* line 63: with lock (entry)
Acquire(i) ==
  /\ wpc[i] = "acquire"
  /\ CanAcquire
  /\ lock' = lock \cup {i}
  /\ wpc' = [wpc EXCEPT ![i] = AfterItem(i, 0)]
  /\ UNCHANGED <<sorter_vars, pc_top, top_n, top_words, text, num_threads, pc_main, error, segments, started, joined,
                 partial_counts, local_counter, idx, tmp, result>>

\* defaultdict(int).__getitem__: a missing key is inserted with int() = 0
DefaultGet(d, w) == IF w \in DictKeys(d) THEN d ELSE Append(d, [word |-> w, count |-> 0])

\* line 65, first half of +=: read partial_counts[word]
MergeGet(i) ==
  /\ wpc[i] = "merge_get"
  /\ LET word == local_counter[i][idx[i] + 1].word
     IN /\ partial_counts' = DefaultGet(partial_counts, word)
        /\ tmp' = [tmp EXCEPT ![i] = DictGet(partial_counts', word)]
  /\ wpc' = [wpc EXCEPT ![i] = "merge_set"]
  /\ UNCHANGED <<sorter_vars, pc_top, top_n, top_words, text, num_threads, pc_main, error, segments, started, joined,
                 lock, local_counter, idx, result>>

\* mutant of MergeSet: = instead of +=, the count is stored, not added
MergeSetOverwrite(i) ==
  /\ wpc[i] = "merge_set"
  /\ LET item == local_counter[i][idx[i] + 1]
     IN partial_counts' = DictSet(partial_counts, item.word, item.count)
  /\ idx' = [idx EXCEPT ![i] = idx[i] + 1]
  /\ wpc' = [wpc EXCEPT ![i] = AfterItem(i, idx[i] + 1)]
  /\ UNCHANGED <<sorter_vars, pc_top, top_n, top_words, text, num_threads, pc_main, error, segments, started, joined,
                 lock, local_counter, tmp, result>>

\* mutant of MergeSet: the sum is computed and not stored
MergeSetNoStore(i) ==
  /\ wpc[i] = "merge_set"
  /\ idx' = [idx EXCEPT ![i] = idx[i] + 1]
  /\ wpc' = [wpc EXCEPT ![i] = AfterItem(i, idx[i] + 1)]
  /\ UNCHANGED <<sorter_vars, pc_top, top_n, top_words, text, num_threads, pc_main, error, segments, started, joined,
                 partial_counts, lock, local_counter, tmp, result>>

\* line 65, second half of +=: store the sum
MergeSet(i) ==
  /\ wpc[i] = "merge_set"
  /\ LET item == local_counter[i][idx[i] + 1]
     IN partial_counts' = DictSet(partial_counts, item.word, tmp[i] + item.count)
  /\ idx' = [idx EXCEPT ![i] = idx[i] + 1]
  /\ wpc' = [wpc EXCEPT ![i] = AfterItem(i, idx[i] + 1)]
  /\ UNCHANGED <<sorter_vars, pc_top, top_n, top_words, text, num_threads, pc_main, error, segments, started, joined,
                 lock, local_counter, tmp, result>>

\* line 63: with lock (exit)
Release(i) ==
  /\ wpc[i] = "release"
  /\ lock' = lock \ {i}
  /\ wpc' = [wpc EXCEPT ![i] = "done"]
  /\ UNCHANGED <<sorter_vars, pc_top, top_n, top_words, text, num_threads, pc_main, error, segments, started, joined,
                 partial_counts, local_counter, idx, tmp, result>>

\* an exception raised in lines 57-61 ends the thread (threading prints it)
FaultTokenize(i) ==
  /\ wpc[i] = "tokenize"
  /\ wpc' = [wpc EXCEPT ![i] = "faulted"]
  /\ UNCHANGED <<sorter_vars, pc_top, top_n, top_words, text, num_threads, pc_main, error, segments, started, joined,
                 partial_counts, lock, local_counter, idx, tmp, result>>

\* mutant of FaultMerge: acquire() and release() calls instead of the with
\* statement, the exception skips the release
FaultMergeKeepsLock(i) ==
  /\ wpc[i] \in {"merge_get", "merge_set"}
  /\ wpc' = [wpc EXCEPT ![i] = "faulted"]
  /\ UNCHANGED <<sorter_vars, pc_top, top_n, top_words, text, num_threads, pc_main, error, segments, started, joined,
                 partial_counts, lock, local_counter, idx, tmp, result>>

\* an exception raised in lines 64-65 leaves the with block, which releases
\* the lock, and ends the thread
FaultMerge(i) ==
  /\ wpc[i] \in {"merge_get", "merge_set"}
  /\ lock' = lock \ {i}
  /\ wpc' = [wpc EXCEPT ![i] = "faulted"]
  /\ UNCHANGED <<sorter_vars, pc_top, top_n, top_words, text, num_threads, pc_main, error, segments, started, joined,
                 partial_counts, local_counter, idx, tmp, result>>

\* ------------------------------------------------------------------ ranker
\* sorted(items, key=itemgetter(1), reverse=True) is stable: item e goes
\* behind every item of the sorted list out whose count is not smaller
RECURSIVE InsertByCount(_, _)
InsertByCount(out, e) ==
  IF out = <<>> THEN <<e>>
  ELSE IF Head(out).count >= e.count
       THEN <<Head(out)>> \o InsertByCount(Tail(out), e)
       ELSE <<e>> \o out

RECURSIVE SortByCount(_, _)
SortByCount(items, out) ==
  IF items = <<>> THEN out
  ELSE SortByCount(Tail(items), InsertByCount(out, Head(items)))

\* lst[:n] for n >= 0
Take(lst, n) == SubSeq(lst, 1, IF n < Len(lst) THEN n ELSE Len(lst))

\* mutant of MostCommon: reverse=True is missing, the n least frequent items
LeastCommon(d, n) ==
  LET ascending == SortByCount([k \in 1..Len(d) |-> [d[k] EXCEPT !.count = 0 - d[k].count]], <<>>)
  IN Take([k \in 1..Len(d) |-> [ascending[k] EXCEPT !.count = 0 - ascending[k].count]], n)

\* line 113: collections.Counter(word_counts).most_common(top_n), which
\* is heapq.nlargest(top_n, items, key=count): the first top_n items of the
\* stable sort by descending count; items of equal count stay in the
\* insertion order of the dict
MostCommon(d, n) == Take(SortByCount(d, <<>>), n)

\* lines 113-114 of visualize_top_words, called with the table map_reduce
\* returned (lines 163-166 of main)
Visualize ==
  /\ pc_main = "returned"
  /\ pc_top = "idle"
  /\ \E n \in 0..MaxTop :
       /\ top_n' = n
       /\ top_words' = MostCommon(result, n)
  /\ pc_top' = "shown"
  /\ UNCHANGED <<sorter_vars, text, num_threads, pc_main, error, segments,
                 started, joined, partial_counts, lock, wpc, local_counter, idx,
                 tmp, result>>

\* ---------------------------------------------------------- specifications
Worker(i) ==
  \/ Tokenize(i)
  \/ Acquire(i)
  \/ MergeGet(i)
  \/ MergeSet(i)
  \/ Release(i)

Fault(i) ==
  \/ FaultTokenize(i)
  \/ FaultMerge(i)

\* runs in which no worker raises
Next ==
  \/ ComputeSegments
  \/ Spawn
  \/ Join
  \/ Return
  \/ Visualize
  \/ \E i \in Threads : Worker(i)

Spec == Init /\ [][Next]_vars

\* runs in which a worker may raise
NextFault ==
  \/ Next
  \/ \E i \in Threads : Fault(i)

SpecFault == Init /\ [][NextFault]_vars

\* the steps of the main thread inside map_reduce
MainStep ==
  \/ ComputeSegments
  \/ Spawn
  \/ Join
  \/ Return

\* a step of thread i, if there is such a thread
WorkerStep(i) == i \in Threads /\ Worker(i)

\* the thread identifiers of all calls
AllThreads == Range(MaxThreads)

\* the calls on the generated texts
InitLive == Init /\ text \in Texts

\* map_reduce alone, in runs in which a worker may raise, under the
\* scheduling of threads: the main thread and every worker that is not
\* blocked gets to run
NextLive ==
  \/ MainStep
  \/ \E i \in Threads : Worker(i)
  \/ \E i \in Threads : Fault(i)

SpecLive ==
  /\ InitLive
  /\ [][NextLive]_vars
  /\ WF_vars(MainStep)
  /\ \A i \in AllThreads : WF_vars(WorkerStep(i))

\* the words of the tables handed to visualize_top_words directly
RankWords == {<<"b">>, <<"a", "b">>, <<"b", "a">>, <<"b", "b">>}

\* every dict of words of RankWords with counts in 1..MaxCount, in every
\* insertion order
Tables ==
  {d \in UNION {[1..k -> [word : RankWords, count : 1..MaxCount]] :
                  k \in 0..Cardinality(RankWords)} :
     \A j, k \in 1..Len(d) : j # k => d[j].word # d[k].word}

\* visualize_top_words(word_counts, top_n) called with any table
InitRank ==
  /\ result \in Tables
  /\ pc_main = "returned"
  /\ text = <<>>
  /\ num_threads = 1
  /\ error = "none"
  /\ segments = <<>>
  /\ started = 0
  /\ joined = 0
  /\ partial_counts = result
  /\ lock = {}
  /\ wpc = <<>>
  /\ local_counter = <<>>
  /\ idx = <<>>
  /\ tmp = <<>>
  /\ pc_top = "idle"
  /\ top_n = 0
  /\ top_words = <<>>
  /\ SorterIdle

NextRank == Visualize

SpecRank == InitRank /\ [][NextRank]_vars

\* -------------------------------------------------------- reference values
\* the count of w in dict d, 0 when w is no key of d
CountIn(d, w) == IF w \in DictKeys(d) THEN DictGet(d, w) ELSE 0

\* lines 64-65 run to the end without interruption: d after the items of
\* local were added to it
RECURSIVE MergeLocal(_, _)
MergeLocal(d, local) ==
  IF local = <<>> THEN d
  ELSE LET w == Head(local).word
           e == DefaultGet(d, w)
       IN MergeLocal(DictSet(e, w, DictGet(e, w) + Head(local).count), Tail(local))

\* the dict after the workers of the first k segments merged one after the
\* other, in the order of their segments
RECURSIVE MergeSegments(_, _)
MergeSegments(segs, k) ==
  IF k = 0 THEN <<>>
  ELSE MergeLocal(MergeSegments(segs, k - 1), LocalCount(segs[k]))

\* map_reduce(t, n), n > 0, when the workers merge in segment order
SequentialTable(t, n) == MergeSegments(Segments(t, n), n)

\* the sum of the counts of w in the local counters of the threads below n
\* that are in the set done
RECURSIVE SumCounts(_, _, _)
SumCounts(n, done, w) ==
  IF n = 0 THEN 0
  ELSE (IF (n - 1) \in done THEN CountIn(local_counter[n - 1], w) ELSE 0)
       + SumCounts(n - 1, done, w)

\* the threads that left the with block normally
Merged == {i \in Threads : wpc[i] = "done"}

\* the threads inside the with block
InCritical == {i \in Threads : wpc[i] \in {"merge_get", "merge_set", "release"}}

\* ------------------------------------------------------------------ claims

\* C1: for every text and every pair of positive worker counts N1, N2,
\* map_reduce(T, N1) and map_reduce(T, N2) return the same table.  Stated on
\* the table a run returns against the table of every other worker count.
\* The code breaks it: a word that straddles a segment boundary is counted as
\* two words.
C1_SameTableForEveryWorkerCount ==
  (pc_main = "returned" /\ num_threads > 0) =>
    \A n2 \in 1..MaxThreads :
      AsMap(result) = AsMap(SequentialTable(text, n2))

\* C2: for every text and positive worker count, every interleaving of the
\* workers returns the same table: the one the workers produce when they
\* merge one after the other in segment order.
C2_TableIndependentOfMergeOrder ==
  (pc_main = "returned" /\ num_threads > 0) =>
    AsMap(result) = AsMap(SequentialTable(text, num_threads))

\* a run returned a dict whose insertion order differs from the sequential
\* one: the workers merged in another order, on words they share
C2_Witness ==
  /\ pc_main = "returned"
  /\ num_threads > 1
  /\ result # SequentialTable(text, num_threads)
  /\ \E i, j \in Threads :
       i # j /\ DictKeys(local_counter[i]) \cap DictKeys(local_counter[j]) # {}

\* C3: whenever no worker holds the lock, the accumulator is the
\* element-wise sum of the local counters of the workers that have merged;
\* at return the table is the sum of the local counters of all workers.
C3_AccumulatorIsSumOfMerged ==
  /\ (pc_main = "run" /\ lock = {}) =>
       /\ DictKeys(partial_counts) = UNION {DictKeys(local_counter[i]) : i \in Merged}
       /\ \A w \in DictKeys(partial_counts) :
            DictGet(partial_counts, w) = SumCounts(Len(segments), Merged, w)
  /\ (pc_main = "returned" /\ num_threads > 0) =>
       /\ Merged = Range(num_threads)
       /\ DictKeys(result) = UNION {DictKeys(local_counter[i]) : i \in Threads}
       /\ \A w \in DictKeys(result) :
            DictGet(result, w) = SumCounts(num_threads, Threads, w)

\* one worker has merged a word that another worker, still to merge, holds too
C3_Witness ==
  /\ pc_main = "run"
  /\ lock = {}
  /\ \E i, j \in Threads :
       /\ wpc[i] = "done"
       /\ wpc[j] = "acquire"
       /\ DictKeys(local_counter[i]) \cap DictKeys(local_counter[j]) # {}

\* C4: at most one worker is inside the with block, and every write to the
\* accumulator is a step of the worker that holds the lock.
C4_MutualExclusion ==
  /\ [](Cardinality(lock) <= 1 /\ InCritical = lock)
  /\ [][partial_counts' # partial_counts =>
          \E i \in Threads :
            /\ lock = {i}
            /\ wpc[i] \in {"merge_get", "merge_set"}
            /\ wpc'[i] # wpc[i]
            /\ \A j \in Threads \ {i} : wpc'[j] = wpc[j]]_vars

\* a worker is in the middle of += while another waits for the lock
C4_Witness ==
  \E i, j \in Threads :
    /\ i # j
    /\ lock = {i}
    /\ wpc[i] = "merge_set"
    /\ wpc[j] = "acquire"
    /\ local_counter[j] # <<>>

\* C5: map_reduce returns, and reads the accumulator into its result, only
\* when every spawned worker has ended (normally or by a fault), and the
\* accumulator is not written after that.
C5_JoinBarrier ==
  /\ [](pc_main = "returned" =>
          /\ Len(segments) = (IF num_threads > 0 THEN num_threads ELSE 0)
          /\ started = Len(segments)
          /\ \A i \in Threads : wpc[i] \in Finished)
  /\ [][pc_main' = "returned" =>
          /\ \A i \in Threads : wpc[i] \in Finished
          /\ partial_counts' = partial_counts
          /\ result' = partial_counts]_vars

\* a run returned after one worker ended normally and another by a fault
C5_Witness ==
  /\ pc_main = "returned"
  /\ \E i, j \in Threads : wpc[i] = "done" /\ wpc[j] = "faulted"
  /\ result # <<>>

\* C6: for a positive worker count N and a text of length L the segments
\* partition the text: there are N of them, segment i < N - 1 is the
\* characters at offsets [i * (L div N), (i + 1) * (L div N)), the last one
\* the characters from (N - 1) * (L div N) to L, and their lengths sum to L.
RECURSIVE SumLen(_, _)
SumLen(segs, k) == IF k = 0 THEN 0 ELSE Len(segs[k]) + SumLen(segs, k - 1)

C6_SegmentsPartitionText ==
  (pc_main \in {"run", "returned"} /\ num_threads > 0) =>
    LET L == Len(text)
        N == num_threads
        base == L \div N
    IN /\ Len(segments) = N
       /\ \A i \in 0..(N - 2) :
            /\ Len(segments[i + 1]) = base
            /\ \A k \in 1..base : segments[i + 1][k] = text[i * base + k]
       /\ Len(segments[N]) = L - (N - 1) * base
       /\ \A k \in 1..Len(segments[N]) : segments[N][k] = text[(N - 1) * base + k]
       /\ SumLen(segments, N) = L

\* the length is no multiple of the worker count: the last segment is longer
C6_Witness ==
  /\ pc_main = "run"
  /\ num_threads = 2
  /\ Len(text) = 3
  /\ Len(segments[1]) = 1
  /\ Len(segments[2]) = 2

\* C7: with num_threads <= 0 map_reduce fails before any work starts and
\* returns no table.  The code breaks it: a negative num_threads makes
\* range(num_threads) empty, and map_reduce returns the empty dict.
C7_NoTableForBadWorkerCount ==
  num_threads <= 0 => pc_main # "returned"

\* C8: when a worker ends with a fault, map_reduce fails and returns no
\* table.  The code breaks it: join() returns normally for a thread that
\* ended by an exception, and map_reduce returns what the others merged.
C8_NoTableAfterWorkerFault ==
  (\E i \in Threads : wpc[i] = "faulted") => pc_main # "returned"

\* the runs of word characters of t, each lowercased, stop words dropped,
\* counted
ReferenceCount(t) ==
  LET runs == FindAll(t)
      lowered == [k \in 1..Len(runs) |-> Lower(runs[k])]
  IN Counter(SelectSeq(lowered, LAMBDA w : w \notin STOP_WORDS))

\* C9: with one worker the returned table is the reference count: the keys
\* are the lowercased maximal runs of word characters of the text that are
\* no stop words, the values their numbers of occurrences.  The code breaks
\* it: it lowercases the text before it looks for the runs, and lowercasing
\* U+0130 puts a non-word character into the run.
C9_OneWorkerIsReferenceCount ==
  (pc_main = "returned" /\ num_threads = 1) =>
    AsMap(result) = AsMap(ReferenceCount(text))

\* C10: no key of the accumulator, and no key of the returned table, is a
\* stop word.
C10_NoStopWordIsKey ==
  \A w \in DictKeys(partial_counts) \cup DictKeys(result) : w \notin STOP_WORDS

\* a table was returned for a text that holds a stop word and another word
C10_Witness ==
  /\ pc_main = "returned"
  /\ result # <<>>
  /\ \E i \in Threads :
       \E k \in 1..Len(FindAll(Lower(segments[i + 1]))) :
         FindAll(Lower(segments[i + 1]))[k] \in STOP_WORDS

\* every key of dict d has a count of at least 1
AllPositive(d) == \A k \in 1..Len(d) : d[k].count >= 1

\* a step keeps every key of the accumulator and lowers no count
CountsNotLowered ==
  \A w \in DictKeys(partial_counts) :
    /\ w \in DictKeys(partial_counts')
    /\ DictGet(partial_counts', w) >= DictGet(partial_counts, w)

\* C11 as stated: every key of the accumulator has a count of at least 1 in
\* every reachable state, counts never decrease, and the returned table has
\* no key with count zero.  The first part fails while a worker is between
\* the read and the write of +=: the read of a missing key of the
\* defaultdict has inserted it with 0.
C11_CountsPositiveInEveryState ==
  /\ [](AllPositive(partial_counts) /\ AllPositive(result))
  /\ [][CountsNotLowered]_vars

\* C11 amended: whenever no worker holds the lock, and in the returned table,
\* every key has a count of at least 1 (a key with count 0 exists only while
\* the lock holder is between the read and the write of +=, and it is the
\* word that worker is adding); counts never decrease; every key of the
\* returned table was counted by some worker.
C11_CountsPositiveWhenUnlocked ==
  /\ [](/\ lock = {} => AllPositive(partial_counts)
        /\ AllPositive(result)
        /\ \A k \in 1..Len(partial_counts) :
             partial_counts[k].count = 0 =>
               \E i \in lock :
                 /\ wpc[i] = "merge_set"
                 /\ local_counter[i][idx[i] + 1].word = partial_counts[k].word
        /\ pc_main = "returned" =>
             DictKeys(result) = UNION {DictKeys(local_counter[i]) : i \in Threads})
  /\ [][CountsNotLowered]_vars

\* a table was returned in which a word has the counts of two workers
C11_Witness ==
  /\ pc_main = "returned"
  /\ \E k \in 1..Len(result) :
       /\ result[k].count >= 2
       /\ \E i, j \in Threads :
            /\ i # j
            /\ result[k].word \in DictKeys(local_counter[i])
            /\ result[k].word \in DictKeys(local_counter[j])

\* C12: for every frequency table and every top_n >= 0 the ranked list has
\* min(top_n, number of entries) items, its counts do not increase from
\* first to last, every item is a (word, count) pair of the table, no word
\* occurs twice, and no omitted entry has a count greater than an included
\* one; top_n = 0 or an empty table gives the empty list.
C12_TopIsSortedPrefix ==
  pc_top = "shown" =>
    LET size == IF top_n < Len(result) THEN top_n ELSE Len(result)
        kept == {top_words[j] : j \in 1..Len(top_words)}
    IN /\ Len(top_words) = size
       /\ \A j \in 1..(Len(top_words) - 1) : top_words[j].count >= top_words[j + 1].count
       /\ \A j \in 1..Len(top_words) : \E k \in 1..Len(result) : result[k] = top_words[j]
       /\ Cardinality(kept) = size
       /\ \A k \in 1..Len(result) :
            result[k] \notin kept => \A e \in kept : e.count >= result[k].count
       /\ (top_n = 0 \/ result = <<>>) => top_words = <<>>

\* a ranking that cut a table of different counts: an entry was omitted and
\* the kept ones are not in the order of the table
C12_Witness ==
  /\ pc_top = "shown"
  /\ top_n = 2
  /\ Len(result) = 4
  /\ top_words # SubSeq(result, 1, 2)
  /\ top_words[1].count > top_words[2].count

\* the code point of a character of a key (Python compares str by code point)
CharCode(c) ==
  CASE c = "a" -> 97 [] c = "b" -> 98 [] c = "c" -> 99 [] c = "e" -> 101
    [] c = "h" -> 104 [] c = "i" -> 105 [] c = "m" -> 109 [] c = "n" -> 110
    [] c = "o" -> 111 [] c = "r" -> 114 [] c = "s" -> 115 [] c = "t" -> 116

\* u < v for two words
RECURSIVE LexLess(_, _)
LexLess(u, v) ==
  IF v = <<>> THEN FALSE
  ELSE IF u = <<>> THEN TRUE
  ELSE IF Head(u) = Head(v) THEN LexLess(Tail(u), Tail(v))
  ELSE CharCode(Head(u)) < CharCode(Head(v))

\* C13: items of the ranked list with equal counts are in ascending
\* lexicographic order of their words, also across the cut-off, so the list
\* is the same for every interleaving of the workers that built the table
\* (the list ranked from the table of the workers merging in segment order).
\* The code breaks it: most_common keeps items of equal count in the
\* insertion order of the dict, which is the order in which the workers
\* happened to merge.
C13_TiesInLexicographicOrder ==
  (pc_top = "shown" /\ num_threads > 0) =>
    LET kept == {top_words[j] : j \in 1..Len(top_words)}
    IN /\ \A j \in 1..(Len(top_words) - 1) :
            top_words[j].count = top_words[j + 1].count =>
              LexLess(top_words[j].word, top_words[j + 1].word)
       /\ \A k \in 1..Len(result) :
            result[k] \notin kept =>
              \A e \in kept :
                e.count = result[k].count => LexLess(e.word, result[k].word)
       /\ top_words = MostCommon(SequentialTable(text, num_threads), top_n)

\* C14: for the empty text and a positive worker count N the run is no
\* error: all N segments are empty, every worker counts nothing, map_reduce
\* returns the empty table and its top_n list is empty.
C14_EmptyTextGivesEmptyTable ==
  (text = <<>> /\ num_threads > 0) =>
    /\ pc_main # "raised"
    /\ error = "none"
    /\ pc_main # "start" =>
         /\ Len(segments) = num_threads
         /\ \A k \in 1..Len(segments) : segments[k] = <<>>
         /\ \A i \in Threads : local_counter[i] = <<>>
    /\ partial_counts = <<>>
    /\ result = <<>>
    /\ top_words = <<>>

\* the empty text went through the largest number of workers and a ranking
\* that asked for items
C14_Witness ==
  /\ text = <<>>
  /\ num_threads = MaxThreads
  /\ Merged = Range(MaxThreads)
  /\ pc_main = "returned"
  /\ pc_top = "shown"
  /\ top_n > 0

\* ------------------------------------------------------------ file_sorter
\* A file name is a sequence of characters.  A file content is a sequence of
\* chunks (what one fsrc.read(1024 * 1024) returns); a chunk is a string.
\* File k of src_files lies in a directory of its own, so any two files may
\* have the same name.

\* the file names of the source trees
FileNames == {<<"x">>, <<"x", ".", "x">>, <<".", "x">>}

\* the file contents of the source trees: up to MaxChunks equal chunks
FileContents ==
  UNION {{[j \in 1..n |-> c] : c \in {"p", "q"}} : n \in 0..MaxChunks}

\* the source trees: the lists of regular files os.walk yields
SourceTrees ==
  UNION {[1..n -> [name : FileNames, content : FileContents]] : n \in 0..MaxFiles}

\* name.rfind("."), counted from 1; 0 when there is no dot
RECURSIVE RFindDot(_, _)
RFindDot(name, k) ==
  IF k = 0 THEN 0 ELSE IF name[k] = "." THEN k ELSE RFindDot(name, k - 1)

\* pathlib's PurePath.suffix: the part from the last dot on, unless the dot
\* is the first or the last character of the name
Suffix(name) ==
  LET i == RFindDot(name, Len(name))
  IN IF 1 < i /\ i < Len(name) THEN SubSeq(name, i, Len(name)) ELSE <<>>

\* line 27: src_file.suffix[1:] if src_file.suffix else "no_extension"
Ext(name) == IF Suffix(name) # <<>> THEN Tail(Suffix(name)) ELSE <<"no_extension">>

\* lines 28 and 32: dest_dir / ext / src_file.name
DestPath(name) == <<Ext(name), name>>

\* the copy tasks
Tasks == 1..Len(src_files)

\* a chunk of a file that was never written (a hole reads as zeros)
HOLE == "0"

\* write of chunk at offset off (in chunks) of content c
WriteAt(c, off, chunk) ==
  IF off < Len(c) THEN [c EXCEPT ![off + 1] = chunk]
  ELSE c \o [j \in 1..(off - Len(c)) |-> HOLE] \o <<chunk>>

\* files with the file at path set to content c
PutFile(files, path, c) ==
  [q \in DOMAIN files \cup {path} |-> IF q = path THEN c ELSE files[q]]

\* file_sorter.main was called on a source tree and an empty destination
InitSort ==
  /\ src_files \in SourceTrees
  /\ dest_dirs = {}
  /\ dest_files = <<>>
  /\ rf_pc = "walk"
  /\ tpc = <<>>
  /\ tpos = <<>>
  /\ text = <<>>
  /\ num_threads = 0
  /\ pc_main = "idle"
  /\ error = "none"
  /\ segments = <<>>
  /\ started = 0
  /\ joined = 0
  /\ partial_counts = <<>>
  /\ lock = {}
  /\ wpc = <<>>
  /\ local_counter = <<>>
  /\ idx = <<>>
  /\ tmp = <<>>
  /\ result = <<>>
  /\ pc_top = "idle"
  /\ top_n = 0
  /\ top_words = <<>>

\* lines 51-57 of read_folder: one task per file is created; no task runs
\* before read_folder awaits
Walk ==
  /\ rf_pc = "walk"
  /\ rf_pc' = "gather"
  /\ tpc' = [i \in Tasks |-> "makedirs"]
  /\ tpos' = [i \in Tasks |-> 0]
  /\ UNCHANGED <<counter_vars, src_files, dest_dirs, dest_files>>

\* line 29 of copy_file: makedirs(target_dir, exist_ok=True)
MakeDirs(i) ==
  /\ rf_pc = "gather"
  /\ tpc[i] = "makedirs"
  /\ dest_dirs' = dest_dirs \cup {Ext(src_files[i].name)}
  /\ tpc' = [tpc EXCEPT ![i] = "open_src"]
  /\ UNCHANGED <<counter_vars, src_files, dest_files, rf_pc, tpos>>

\* line 35: open(src_file, "rb")
OpenSrc(i) ==
  /\ rf_pc = "gather"
  /\ tpc[i] = "open_src"
  /\ tpc' = [tpc EXCEPT ![i] = "open_dst"]
  /\ UNCHANGED <<counter_vars, src_files, dest_dirs, dest_files, rf_pc, tpos>>

\* line 36: open(dest_file, "wb") creates the file or truncates it
OpenDst(i) ==
  /\ rf_pc = "gather"
  /\ tpc[i] = "open_dst"
  /\ dest_files' = PutFile(dest_files, DestPath(src_files[i].name), <<>>)
  /\ tpc' = [tpc EXCEPT ![i] = "read"]
  /\ UNCHANGED <<counter_vars, src_files, dest_dirs, rf_pc, tpos>>

\* lines 38-40: read the next chunk; at the end of the source both files
\* are closed and the task is done
Read(i) ==
  /\ rf_pc = "gather"
  /\ tpc[i] = "read"
  /\ IF tpos[i] < Len(src_files[i].content)
     THEN /\ tpos' = [tpos EXCEPT ![i] = tpos[i] + 1]
          /\ tpc' = [tpc EXCEPT ![i] = "write"]
     ELSE /\ tpc' = [tpc EXCEPT ![i] = "done"]
          /\ UNCHANGED tpos
  /\ UNCHANGED <<counter_vars, src_files, dest_dirs, dest_files, rf_pc>>

\* line 41: the chunk goes to the position of this task's own file object,
\* which has written tpos[i] - 1 chunks so far
Write(i) ==
  /\ rf_pc = "gather"
  /\ tpc[i] = "write"
  /\ LET path == DestPath(src_files[i].name)
     IN dest_files' =
          PutFile(dest_files, path,
                  WriteAt(dest_files[path], tpos[i] - 1, src_files[i].content[tpos[i]]))
  /\ tpc' = [tpc EXCEPT ![i] = "read"]
  /\ UNCHANGED <<counter_vars, src_files, dest_dirs, rf_pc, tpos>>

\* the tasks that ended: "done", "failed" (the exception was logged),
\* "raised" (an exception left copy_file) or "cancelled"
TaskEnded == {"done", "failed", "raised", "cancelled"}

\* line 61: gather returns when every task has ended and none has raised
GatherReturn ==
  /\ rf_pc = "gather"
  /\ \A i \in Tasks : tpc[i] \in {"done", "failed"}
  /\ rf_pc' = "returned"
  /\ UNCHANGED <<counter_vars, src_files, dest_dirs, dest_files, tpc, tpos>>

\* line 61: gather (return_exceptions is False) raises the exception of the
\* first task that raised, read_folder raises it, and asyncio.run (line 84)
\* cancels the tasks that have not ended
GatherRaise ==
  /\ rf_pc = "gather"
  /\ \E i \in Tasks : tpc[i] = "raised"
  /\ rf_pc' = "raised"
  /\ tpc' = [i \in Tasks |-> IF tpc[i] \in TaskEnded THEN tpc[i] ELSE "cancelled"]
  /\ UNCHANGED <<counter_vars, src_files, dest_dirs, dest_files, tpos>>

\* makedirs raises (line 29): the handler of line 43 formats dest_file, which
\* is not yet bound, and UnboundLocalError leaves copy_file
FailMakeDirs(i) ==
  /\ rf_pc = "gather"
  /\ tpc[i] = "makedirs"
  /\ tpc' = [tpc EXCEPT ![i] = "raised"]
  /\ UNCHANGED <<counter_vars, src_files, dest_dirs, dest_files, rf_pc, tpos>>

\* open, read or write raises (lines 35-41): the handler of line 43 logs the
\* error and copy_file returns
FailCopy(i) ==
  /\ rf_pc = "gather"
  /\ tpc[i] \in {"open_src", "open_dst", "read", "write"}
  /\ tpc' = [tpc EXCEPT ![i] = "failed"]
  /\ UNCHANGED <<counter_vars, src_files, dest_dirs, dest_files, rf_pc, tpos>>

CopyFile(i) ==
  \/ MakeDirs(i)
  \/ OpenSrc(i)
  \/ OpenDst(i)
  \/ Read(i)
  \/ Write(i)

FailFile(i) ==
  \/ FailMakeDirs(i)
  \/ FailCopy(i)

\* read_folder when no file operation fails
NextSort ==
  \/ Walk
  \/ GatherReturn
  \/ \E i \in Tasks : CopyFile(i)

SpecSort == InitSort /\ [][NextSort]_vars

\* read_folder when file operations may fail
NextSortFault ==
  \/ NextSort
  \/ GatherRaise
  \/ \E i \in Tasks : FailFile(i)

SpecSortFault == InitSort /\ [][NextSortFault]_vars

\* C15: after read_folder completes, every regular file of the source tree
\* has a copy at destination/<extension>/<file name> (no_extension when the
\* name has no extension) with the content of that source file, also when
\* source files of different directories have the same name.  The code
\* breaks it: files of the same name are copied to the same path, each task
\* truncates the file the other one writes, and one copy (or a mixture) is
\* left.
C15_EveryFileHasItsCopy ==
  rf_pc = "returned" =>
    \A i \in Tasks :
      /\ Ext(src_files[i].name) \in dest_dirs
      /\ DestPath(src_files[i].name) \in DOMAIN dest_files
      /\ dest_files[DestPath(src_files[i].name)] = src_files[i].content

\* how far a thread has got in map_worker
Phase(p) ==
  CASE p = "unstarted" -> 0
    [] p = "tokenize" -> 1
    [] p = "acquire" -> 2
    [] p \in {"merge_get", "merge_set"} -> 3
    [] p = "release" -> 4
    [] p \in Finished -> 5

\* C16: for a positive worker count N map_reduce starts exactly N workers,
\* one per segment: thread i is the only one to tokenize and merge segment
\* i, no thread is started twice or goes back to an earlier phase, and a
\* thread that has ended has added every item of its local counter once.
C16_OneWorkerPerSegment ==
  /\ [](num_threads > 0 /\ pc_main # "start" =>
          /\ DOMAIN wpc = Range(num_threads)
          /\ started <= num_threads
          /\ {i \in Threads : wpc[i] # "unstarted"} = Range(started)
          /\ \A i \in Threads :
               /\ Phase(wpc[i]) >= 2 => local_counter[i] = LocalCount(segments[i + 1])
               /\ Phase(wpc[i]) < 3 => idx[i] = 0
               /\ wpc[i] = "merge_set" => idx[i] < Len(local_counter[i])
               /\ wpc[i] \in {"release", "done"} => idx[i] = Len(local_counter[i])
          /\ pc_main = "returned" =>
               /\ started = num_threads
               /\ \A i \in Threads : wpc[i] = "done")
  /\ [][\A i \in Threads :
          i \in DOMAIN wpc' =>
            /\ Phase(wpc'[i]) >= Phase(wpc[i])
            /\ Phase(wpc'[i]) <= Phase(wpc[i]) + 2
            /\ idx'[i] \in {idx[i], idx[i] + 1}]_vars

\* three workers, each with words of its own segment, have all merged
C16_Witness ==
  /\ pc_main = "returned"
  /\ num_threads = 3
  /\ \A i \in Threads : local_counter[i] # <<>>
  /\ \E i, j \in Threads : local_counter[i] # local_counter[j]

\* C17: a worker holds the lock only while it adds its local counter, built
\* before, to the accumulator: the step that tokenizes, filters and counts
\* is taken by a worker that does not hold the lock and does not take it,
\* whoever else holds it.
C17_LockHeldOnlyForMerge ==
  /\ [](\A i \in lock :
          /\ wpc[i] \in {"merge_get", "merge_set", "release"}
          /\ local_counter[i] = LocalCount(segments[i + 1]))
  /\ [][\A i \in Threads :
          (wpc[i] = "tokenize" /\ wpc'[i] # "tokenize") =>
            /\ i \notin lock
            /\ lock' = lock
            /\ partial_counts' = partial_counts]_vars

\* two workers are tokenizing while a third one holds the lock and merges
C17_Witness ==
  \E i, j, k \in Threads :
    /\ i # j
    /\ wpc[i] = "tokenize"
    /\ wpc[j] = "tokenize"
    /\ lock = {k}
    /\ wpc[k] = "merge_set"

\* C18: for a positive worker count every run terminates under fair
\* scheduling, also when workers raise: a worker that waits for the lock
\* gets it and ends, a lock that is held is released (by the end of the
\* with block or by an exception inside it), and map_reduce returns.
C18_EveryRunTerminates ==
  /\ (num_threads > 0 /\ pc_main = "start") ~> (pc_main = "returned")
  /\ [](pc_main = "returned" =>
          /\ lock = {}
          /\ \A i \in Threads : wpc[i] \in Finished
          /\ \A i \in Threads : wpc[i] = "done" => idx[i] = Len(local_counter[i]))

\* a worker raised inside the with block after it had put the first key into
\* the accumulator, another worker with other words merged after it, and
\* map_reduce returned
C18_Witness ==
  /\ pc_main = "returned"
  /\ lock = {}
  /\ \E i, j \in Threads :
       /\ wpc[i] = "faulted"
       /\ wpc[j] = "done"
       /\ local_counter[i] # <<>>
       /\ local_counter[j] # <<>>
       /\ DictKeys(local_counter[i]) \cap DictKeys(local_counter[j]) = {}
       /\ result[1].word \in DictKeys(local_counter[i])

\* the offsets 0 < p < len(t) at which a segment of map_reduce(t, n) starts
Boundaries(t, n) ==
  {i * FloorDiv(Len(t), n) : i \in 1..(n - 1)} \cap (1..(Len(t) - 1))

\* no boundary between two adjacent word characters: at every boundary
\* offset p the character at p - 1 or the character at p is no word character
NoWordSplit(t, n) ==
  \A p \in Boundaries(t, n) : t[p] \notin WordChars \/ t[p + 1] \notin WordChars

\* C19: when no segment boundary falls between two adjacent word characters,
\* map_reduce with N > 0 workers returns the table it returns with one
\* worker.  The code breaks it: each worker lowercases its own segment, and
\* the lowercase of a capital sigma depends on the characters around it.
C19_SameTableWhenNoWordIsSplit ==
  (pc_main = "returned" /\ num_threads > 0 /\ NoWordSplit(text, num_threads)) =>
    AsMap(result) = AsMap(SequentialTable(text, 1))

\* C20: a failure while copying one file (creating its target directory,
\* opening, reading or writing) is logged and confined to that file:
\* read_folder does not raise, and no copy of another file is cut short.  The
\* code breaks it when makedirs fails: the handler of copy_file raises
\* UnboundLocalError itself, gather passes it on, read_folder raises and the
\* copies still running are cancelled.
C20_FailureConfinedToItsFile ==
  /\ rf_pc # "raised"
  /\ \A i \in DOMAIN tpc : tpc[i] # "cancelled"

====
